---- MODULE Spec2Model ----
(***************************************************************************)
(* Student and subscription route handlers of the announcement API         *)
(* (api/routes/student.py, api/routes/subscription.py) over a relational   *)
(* database.  Spec runs one request at a time; SpecConc runs requests on   *)
(* several workers, one database call per step.                            *)
(***************************************************************************)
EXTENDS Integers, FiniteSets, TLC

\* ------------------------------------------------------------------ bounds
MaxStudentId == 2

StudentIds == 1..MaxStudentId
\* the rows of table channels, which no handler of these routes changes
ExistingChannels == {1}
\* channel ids a request may name: an existing channel and one that does not exist
ChannelIds == {1, 2}
\* the email addresses and registration numbers a request may carry
Emails == {"a@uni.org", "b@uni.org"}
Matricules == {"M1", "M2"}
\* two requests in flight at a time
Workers == {1, 2}
Pairs == ChannelIds \X StudentIds

\* ------------------------------------------------------------ status codes
HTTP_200_OK == 200
HTTP_201_CREATED == 201
HTTP_204_NO_CONTENT == 204
HTTP_400_BAD_REQUEST == 400
HTTP_403_FORBIDDEN == 403
HTTP_404_NOT_FOUND == 404
\* an exception the handler does not catch (the database refusing a write)
HTTP_500_INTERNAL_SERVER_ERROR == 500
\* JSONResponse(content=...) is returned as built: its status_code is the default
JSONResponse_status_code == HTTP_200_OK

VARIABLES
    students,    \* table students: id -> [email, matricule]
    channels,    \* ids of the rows of table channels
    subs,        \* table subscriptions: <<channel_id, student_id>> -> number of rows
    req,         \* Spec: the request handled last
    resp,        \* Spec: the status code answered to it
    created,     \* history: 201 answers per pair since it was last unsubscribed
    tokens,      \* student ids a bearer token has been issued for
    pc,          \* SpecConc: each worker's position in its handler
    loc          \* SpecConc: the request each worker is handling

vars == <<students, channels, subs, req, resp, created, tokens, pc, loc>>
db == <<students, channels, subs>>
seqVars == <<req, resp>>
concVars == <<pc, loc>>

Request(op, caller, student_id, channel_id, email, matricule) ==
    [op |-> op, caller |-> caller, student_id |-> student_id,
     channel_id |-> channel_id, email |-> email, matricule |-> matricule]

NoRequest == Request("none", 0, 0, 0, "", "")

\* ------------------------------------------------------ data access (crud)
get_student(student_id) == student_id \in DOMAIN students

get_student_by_email(email) ==
    {i \in DOMAIN students : students[i].email = email}

get_student_by_matricule(matricule) ==
    {i \in DOMAIN students : students[i].matricule = matricule}

other_student_with_same_email(student_id, email) ==
    \E i \in DOMAIN students : i # student_id /\ students[i].email = email

other_student_with_same_matricule(student_id, matricule) ==
    \E i \in DOMAIN students : i # student_id /\ students[i].matricule = matricule

get_channel(channel_id) == channel_id \in channels

get_sub_by_channel_and_student(channel_id, student_id) ==
    subs[<<channel_id, student_id>>] > 0

\* INSERT INTO students: email and matricule are unique columns
crud_create_student(id, email, matricule) ==
    IF get_student_by_email(email) # {} \/ get_student_by_matricule(matricule) # {}
    THEN [ok |-> FALSE, students |-> students]
    ELSE [ok |-> TRUE,
          students |-> [i \in DOMAIN students \cup {id} |->
                          IF i = id THEN [email |-> email, matricule |-> matricule]
                          ELSE students[i]]]

\* UPDATE students SET ... WHERE id = student_id, under the same unique columns
crud_update_student(student_id, email, matricule) ==
    IF \/ other_student_with_same_email(student_id, email)
       \/ other_student_with_same_matricule(student_id, matricule)
    THEN [ok |-> FALSE, students |-> students]
    ELSE [ok |-> TRUE,
          students |-> [students EXCEPT
                          ![student_id] = [email |-> email, matricule |-> matricule]]]

\* DELETE FROM students WHERE id = student_id
crud_delete_student(student_id) ==
    [i \in DOMAIN students \ {student_id} |-> students[i]]

\* INSERT INTO subscriptions, with no primary key
crud_subscribe_NoKey(channel_id, student_id) ==
    [ok |-> TRUE, subs |-> [subs EXCEPT ![<<channel_id, student_id>>] = @ + 1]]

\* INSERT INTO subscriptions: (channel_id, student_id) is the primary key
crud_subscribe(channel_id, student_id) ==
    IF get_sub_by_channel_and_student(channel_id, student_id)
    THEN [ok |-> FALSE, subs |-> subs]
    ELSE [ok |-> TRUE, subs |-> [subs EXCEPT ![<<channel_id, student_id>>] = @ + 1]]

\* DELETE FROM subscriptions WHERE channel_id = ... AND student_id = ...
crud_unsubscribe(channel_id, student_id) ==
    [subs EXCEPT ![<<channel_id, student_id>>] = 0]

\* ids the database may give a new student row
NewStudentIds == StudentIds \ DOMAIN students

\* -------------------------------------------------------------------- Init
Init ==
    /\ students = [i \in {} |-> [email |-> "", matricule |-> ""]]
    /\ channels = ExistingChannels
    /\ subs = [p \in Pairs |-> 0]
    /\ req = NoRequest
    /\ resp = 0
    /\ created = [p \in Pairs |-> 0]
    /\ tokens = {}
    /\ pc = [w \in Workers |-> "idle"]
    /\ loc = [w \in Workers |-> NoRequest]

\* ------------------------------------------- handlers, one request per step
Reject(status) == resp' = status /\ UNCHANGED <<db, created, tokens>>

\* POST /students/ without the matricule check
create_student_NoMatriculeCheck(email, matricule) ==
    /\ req' = Request("create_student", 0, 0, 0, email, matricule)
    /\ IF get_student_by_email(email) # {}
       THEN Reject(HTTP_400_BAD_REQUEST)
       ELSE \E id \in NewStudentIds :
              LET r == crud_create_student(id, email, matricule) IN
              /\ students' = r.students
              /\ resp' = IF r.ok THEN HTTP_201_CREATED
                         ELSE HTTP_500_INTERNAL_SERVER_ERROR
              /\ tokens' = IF r.ok THEN tokens \cup {id} ELSE tokens
              /\ UNCHANGED <<channels, subs, created>>
    /\ UNCHANGED concVars

\* POST /students/
create_student(email, matricule) ==
    /\ req' = Request("create_student", 0, 0, 0, email, matricule)
    /\ IF get_student_by_email(email) # {}
       THEN Reject(HTTP_400_BAD_REQUEST)
       ELSE IF get_student_by_matricule(matricule) # {}
       THEN Reject(HTTP_400_BAD_REQUEST)
       ELSE \E id \in NewStudentIds :
              LET r == crud_create_student(id, email, matricule) IN
              /\ students' = r.students
              /\ resp' = IF r.ok THEN HTTP_201_CREATED
                         ELSE HTTP_500_INTERNAL_SERVER_ERROR
              /\ tokens' = IF r.ok THEN tokens \cup {id} ELSE tokens
              /\ UNCHANGED <<channels, subs, created>>
    /\ UNCHANGED concVars

\* PUT /students/{student_id} without the matricule check
update_student_NoMatriculeCheck(caller, student_id, email, matricule) ==
    /\ req' = Request("update_student", caller, student_id, 0, email, matricule)
    /\ IF ~get_student(student_id)
       THEN Reject(HTTP_404_NOT_FOUND)
       ELSE IF student_id # caller
       THEN Reject(HTTP_403_FORBIDDEN)
       ELSE IF other_student_with_same_email(student_id, email)
       THEN Reject(HTTP_400_BAD_REQUEST)
       ELSE LET r == crud_update_student(student_id, email, matricule) IN
            /\ students' = r.students
            /\ resp' = IF r.ok THEN HTTP_200_OK ELSE HTTP_500_INTERNAL_SERVER_ERROR
            /\ UNCHANGED <<channels, subs, created, tokens>>
    /\ UNCHANGED concVars

\* PUT /students/{student_id}
update_student(caller, student_id, email, matricule) ==
    /\ req' = Request("update_student", caller, student_id, 0, email, matricule)
    /\ IF ~get_student(student_id)
       THEN Reject(HTTP_404_NOT_FOUND)
       ELSE IF student_id # caller
       THEN Reject(HTTP_403_FORBIDDEN)
       ELSE IF other_student_with_same_email(student_id, email)
       THEN Reject(HTTP_400_BAD_REQUEST)
       ELSE IF other_student_with_same_matricule(student_id, matricule)
       THEN Reject(HTTP_400_BAD_REQUEST)
       ELSE LET r == crud_update_student(student_id, email, matricule) IN
            /\ students' = r.students
            /\ resp' = IF r.ok THEN HTTP_200_OK ELSE HTTP_500_INTERNAL_SERVER_ERROR
            /\ UNCHANGED <<channels, subs, created, tokens>>
    /\ UNCHANGED concVars

\* DELETE /students/{student_id} without the permission check
delete_student_NoPermissionCheck(caller, student_id) ==
    /\ req' = Request("delete_student", caller, student_id, 0, "", "")
    /\ IF ~get_student(student_id)
       THEN Reject(HTTP_404_NOT_FOUND)
       ELSE /\ students' = crud_delete_student(student_id)
            /\ resp' = JSONResponse_status_code
            /\ UNCHANGED <<channels, subs, created, tokens>>
    /\ UNCHANGED concVars

\* DELETE /students/{student_id}
delete_student(caller, student_id) ==
    /\ req' = Request("delete_student", caller, student_id, 0, "", "")
    /\ IF ~get_student(student_id)
       THEN Reject(HTTP_404_NOT_FOUND)
       ELSE IF student_id # caller
       THEN Reject(HTTP_403_FORBIDDEN)
       ELSE /\ students' = crud_delete_student(student_id)
            /\ resp' = JSONResponse_status_code
            /\ UNCHANGED <<channels, subs, created, tokens>>
    /\ UNCHANGED concVars

\* POST /subscriptions/ without the check for an existing subscription
create_new_subscription_NoDuplicateCheck(caller, channel_id, student_id) ==
    /\ req' = Request("create_new_subscription", caller, student_id, channel_id, "", "")
    /\ IF student_id # caller
       THEN Reject(HTTP_403_FORBIDDEN)
       ELSE IF ~get_channel(channel_id)
       THEN Reject(HTTP_404_NOT_FOUND)
       ELSE IF ~get_student(student_id)
       THEN Reject(HTTP_404_NOT_FOUND)
       ELSE LET r == crud_subscribe(channel_id, student_id) IN
            /\ subs' = r.subs
            /\ resp' = IF r.ok THEN HTTP_201_CREATED
                       ELSE HTTP_500_INTERNAL_SERVER_ERROR
            /\ created' = IF r.ok
                          THEN [created EXCEPT ![<<channel_id, student_id>>] = @ + 1]
                          ELSE created
            /\ UNCHANGED <<students, channels, tokens>>
    /\ UNCHANGED concVars

\* POST /subscriptions/ without the permission check
create_new_subscription_NoPermissionCheck(caller, channel_id, student_id) ==
    /\ req' = Request("create_new_subscription", caller, student_id, channel_id, "", "")
    /\ IF get_sub_by_channel_and_student(channel_id, student_id)
       THEN Reject(HTTP_400_BAD_REQUEST)
       ELSE IF ~get_channel(channel_id)
       THEN Reject(HTTP_404_NOT_FOUND)
       ELSE IF ~get_student(student_id)
       THEN Reject(HTTP_404_NOT_FOUND)
       ELSE LET r == crud_subscribe(channel_id, student_id) IN
            /\ subs' = r.subs
            /\ resp' = IF r.ok THEN HTTP_201_CREATED
                       ELSE HTTP_500_INTERNAL_SERVER_ERROR
            /\ created' = IF r.ok
                          THEN [created EXCEPT ![<<channel_id, student_id>>] = @ + 1]
                          ELSE created
            /\ UNCHANGED <<students, channels, tokens>>
    /\ UNCHANGED concVars

\* POST /subscriptions/
create_new_subscription(caller, channel_id, student_id) ==
    /\ req' = Request("create_new_subscription", caller, student_id, channel_id, "", "")
    /\ LET db_subscription == get_sub_by_channel_and_student(channel_id, student_id) IN
       IF student_id # caller
       THEN Reject(HTTP_403_FORBIDDEN)
       ELSE IF db_subscription
       THEN Reject(HTTP_400_BAD_REQUEST)
       ELSE IF ~get_channel(channel_id)
       THEN Reject(HTTP_404_NOT_FOUND)
       ELSE IF ~get_student(student_id)
       THEN Reject(HTTP_404_NOT_FOUND)
       ELSE LET r == crud_subscribe(channel_id, student_id) IN
            /\ subs' = r.subs
            /\ resp' = IF r.ok THEN HTTP_201_CREATED
                       ELSE HTTP_500_INTERNAL_SERVER_ERROR
            /\ created' = IF r.ok
                          THEN [created EXCEPT ![<<channel_id, student_id>>] = @ + 1]
                          ELSE created
            /\ UNCHANGED <<students, channels, tokens>>
    /\ UNCHANGED concVars

\* DELETE /subscriptions/ deleting every subscription of the channel
unsubscribe_WholeChannel(caller, channel_id, student_id) ==
    /\ req' = Request("unsubscribe", caller, student_id, channel_id, "", "")
    /\ IF student_id # caller
       THEN Reject(HTTP_403_FORBIDDEN)
       ELSE IF ~get_sub_by_channel_and_student(channel_id, student_id)
       THEN Reject(HTTP_404_NOT_FOUND)
       ELSE /\ subs' = [p \in Pairs |-> IF p[1] = channel_id THEN 0 ELSE subs[p]]
            /\ created' = [p \in Pairs |-> IF p[1] = channel_id THEN 0 ELSE created[p]]
            /\ resp' = JSONResponse_status_code
            /\ UNCHANGED <<students, channels, tokens>>
    /\ UNCHANGED concVars

\* DELETE /subscriptions/
unsubscribe(caller, channel_id, student_id) ==
    /\ req' = Request("unsubscribe", caller, student_id, channel_id, "", "")
    /\ IF student_id # caller
       THEN Reject(HTTP_403_FORBIDDEN)
       ELSE IF ~get_sub_by_channel_and_student(channel_id, student_id)
       THEN Reject(HTTP_404_NOT_FOUND)
       ELSE /\ subs' = crud_unsubscribe(channel_id, student_id)
            /\ created' = [created EXCEPT ![<<channel_id, student_id>>] = 0]
            /\ resp' = JSONResponse_status_code
            /\ UNCHANGED <<students, channels, tokens>>
    /\ UNCHANGED concVars

CreateStudent == \E e \in Emails, m \in Matricules : create_student(e, m)

UpdateStudent ==
    \E caller \in tokens, id \in StudentIds, e \in Emails, m \in Matricules :
        update_student(caller, id, e, m)

DeleteStudent == \E caller \in tokens, id \in StudentIds : delete_student(caller, id)

CreateNewSubscription ==
    \E caller \in tokens, c \in ChannelIds, s \in StudentIds :
        create_new_subscription(caller, c, s)

Unsubscribe ==
    \E caller \in tokens, c \in ChannelIds, s \in StudentIds :
        unsubscribe(caller, c, s)

Next ==
    \/ CreateStudent
    \/ UpdateStudent
    \/ DeleteStudent
    \/ CreateNewSubscription
    \/ Unsubscribe

Spec == Init /\ [][Next]_vars

\* ------------------------------- handlers, one database call per worker step
\* the worker answers `status` and is free for the next request
Answer(w, status) ==
    /\ pc' = [pc EXCEPT ![w] = "idle"]
    /\ loc' = [loc EXCEPT ![w] = NoRequest]

\* the worker goes on handling request r at `label`
Goto(w, label, r) ==
    /\ pc' = [pc EXCEPT ![w] = label]
    /\ loc' = [loc EXCEPT ![w] = r]

\* create_student: the email lookup and its check
ConcCreateStudentEmail(w, email, matricule) ==
    /\ pc[w] = "idle"
    /\ IF get_student_by_email(email) # {}
       THEN Answer(w, HTTP_400_BAD_REQUEST)
       ELSE Goto(w, "student_matricule",
                 Request("create_student", 0, 0, 0, email, matricule))
    /\ UNCHANGED <<db, created, tokens, seqVars>>

\* create_student: the matricule lookup and its check
ConcCreateStudentMatricule(w) ==
    /\ pc[w] = "student_matricule"
    /\ IF get_student_by_matricule(loc[w].matricule) # {}
       THEN Answer(w, HTTP_400_BAD_REQUEST)
       ELSE Goto(w, "student_insert", loc[w])
    /\ UNCHANGED <<db, created, tokens, seqVars>>

\* create_student: crud.create_student
ConcCreateStudentInsert(w) ==
    /\ pc[w] = "student_insert"
    /\ \E id \in NewStudentIds :
         LET r == crud_create_student(id, loc[w].email, loc[w].matricule) IN
         /\ students' = r.students
         /\ tokens' = IF r.ok THEN tokens \cup {id} ELSE tokens
         /\ Answer(w, IF r.ok THEN HTTP_201_CREATED ELSE HTTP_500_INTERNAL_SERVER_ERROR)
    /\ UNCHANGED <<channels, subs, created, seqVars>>

\* create_new_subscription: the subscription lookup, the permission check and
\* the check of what the lookup returned
ConcSubscribeLookup(w, caller, channel_id, student_id) ==
    /\ pc[w] = "idle"
    /\ LET db_subscription == get_sub_by_channel_and_student(channel_id, student_id) IN
       IF student_id # caller
       THEN Answer(w, HTTP_403_FORBIDDEN)
       ELSE IF db_subscription
       THEN Answer(w, HTTP_400_BAD_REQUEST)
       ELSE Goto(w, "subscribe_channel",
                 Request("create_new_subscription", caller, student_id, channel_id, "", ""))
    /\ UNCHANGED <<db, created, tokens, seqVars>>

\* create_new_subscription: get_channel and its check
ConcSubscribeChannel(w) ==
    /\ pc[w] = "subscribe_channel"
    /\ IF ~get_channel(loc[w].channel_id)
       THEN Answer(w, HTTP_404_NOT_FOUND)
       ELSE Goto(w, "subscribe_student", loc[w])
    /\ UNCHANGED <<db, created, tokens, seqVars>>

\* create_new_subscription: get_student and its check
ConcSubscribeStudent(w) ==
    /\ pc[w] = "subscribe_student"
    /\ IF ~get_student(loc[w].student_id)
       THEN Answer(w, HTTP_404_NOT_FOUND)
       ELSE Goto(w, "subscribe_insert", loc[w])
    /\ UNCHANGED <<db, created, tokens, seqVars>>

\* create_new_subscription: crud.subscribe with its failure swallowed
ConcSubscribeInsert_ErrorSwallowed(w) ==
    /\ pc[w] = "subscribe_insert"
    /\ LET p == <<loc[w].channel_id, loc[w].student_id>>
           r == crud_subscribe(p[1], p[2]) IN
       /\ subs' = r.subs
       /\ created' = [created EXCEPT ![p] = @ + 1]
       /\ Answer(w, HTTP_201_CREATED)
    /\ UNCHANGED <<students, channels, tokens, seqVars>>

\* create_new_subscription: crud.subscribe
ConcSubscribeInsert(w) ==
    /\ pc[w] = "subscribe_insert"
    /\ LET p == <<loc[w].channel_id, loc[w].student_id>>
           r == crud_subscribe(p[1], p[2]) IN
       /\ subs' = r.subs
       /\ created' = IF r.ok THEN [created EXCEPT ![p] = @ + 1] ELSE created
       /\ Answer(w, IF r.ok THEN HTTP_201_CREATED ELSE HTTP_500_INTERNAL_SERVER_ERROR)
    /\ UNCHANGED <<students, channels, tokens, seqVars>>

\* unsubscribe: the permission check, the subscription lookup and its check
ConcUnsubscribeLookup(w, caller, channel_id, student_id) ==
    /\ pc[w] = "idle"
    /\ IF student_id # caller
       THEN Answer(w, HTTP_403_FORBIDDEN)
       ELSE IF ~get_sub_by_channel_and_student(channel_id, student_id)
       THEN Answer(w, HTTP_404_NOT_FOUND)
       ELSE Goto(w, "unsubscribe_delete",
                 Request("unsubscribe", caller, student_id, channel_id, "", ""))
    /\ UNCHANGED <<db, created, tokens, seqVars>>

\* unsubscribe: crud.unsubscribe
ConcUnsubscribeDelete(w) ==
    /\ pc[w] = "unsubscribe_delete"
    /\ LET p == <<loc[w].channel_id, loc[w].student_id>> IN
       /\ subs' = crud_unsubscribe(p[1], p[2])
       /\ created' = [created EXCEPT ![p] = 0]
    /\ Answer(w, JSONResponse_status_code)
    /\ UNCHANGED <<students, channels, tokens, seqVars>>

ConcStart(w) ==
    \/ \E e \in Emails, m \in Matricules : ConcCreateStudentEmail(w, e, m)
    \/ \E caller \in tokens, c \in ChannelIds, s \in StudentIds :
         ConcSubscribeLookup(w, caller, c, s)
    \/ \E caller \in tokens, c \in ChannelIds, s \in StudentIds :
         ConcUnsubscribeLookup(w, caller, c, s)

ConcStep(w) ==
    \/ ConcCreateStudentMatricule(w)
    \/ ConcCreateStudentInsert(w)
    \/ ConcSubscribeChannel(w)
    \/ ConcSubscribeStudent(w)
    \/ ConcSubscribeInsert(w)
    \/ ConcUnsubscribeDelete(w)

NextConc == \E w \in Workers : ConcStart(w) \/ ConcStep(w)

SpecConc == Init /\ [][NextConc]_vars

\* ------------------------------------------------------------- properties
PairOf(r) == <<r.channel_id, r.student_id>>

UniqueStudents ==
    \A i, j \in DOMAIN students :
        i # j => /\ students[i].email # students[j].email
                 /\ students[i].matricule # students[j].matricule

SubscriptionRequest(r) == r.op \in {"create_new_subscription", "unsubscribe"}

\* C1: whatever create-subscription and unsubscribe requests have run, in any
\* interleaving, no (channel_id, student_id) pair has more than one
\* subscription row.
C1_AtMostOneSubscriptionPerPair == \A p \in Pairs : subs[p] <= 1

\* a create-subscription request reaches its insert while the row already exists
C1_Witness ==
    \E w \in Workers :
        /\ pc[w] = "subscribe_insert"
        /\ subs[PairOf(loc[w])] = 1

\* C2 as stated: every update request that names an existing student and an
\* email or matricule held by another student is answered 400, whoever sends it.
C2_Original ==
    [][(/\ req'.op = "update_student"
        /\ req'.student_id \in DOMAIN students
        /\ \/ other_student_with_same_email(req'.student_id, req'.email)
           \/ other_student_with_same_matricule(req'.student_id, req'.matricule))
       => resp' = HTTP_400_BAD_REQUEST]_vars

\* C2 as amended: after every request no two students share an email or a
\* matricule; an update sent by the student themself that names an email or
\* matricule held by another student is answered 400 and changes nothing; an
\* update that names the student's own current email and matricule is never
\* answered 400.
C2_UniqueEmailAndMatricule ==
    [][/\ UniqueStudents'
       /\ (/\ req'.op = "update_student"
           /\ req'.student_id \in DOMAIN students
           /\ req'.caller = req'.student_id
           /\ \/ other_student_with_same_email(req'.student_id, req'.email)
              \/ other_student_with_same_matricule(req'.student_id, req'.matricule))
          => (resp' = HTTP_400_BAD_REQUEST /\ students' = students)
       /\ (/\ req'.op = "update_student"
           /\ req'.student_id \in DOMAIN students
           /\ req'.email = students[req'.student_id].email
           /\ req'.matricule = students[req'.student_id].matricule)
          => resp' # HTTP_400_BAD_REQUEST]_vars

\* a student's own update was answered 400 because another student holds the
\* matricule, the email being free
C2_Witness ==
    /\ req.op = "update_student"
    /\ req.caller = req.student_id
    /\ resp = HTTP_400_BAD_REQUEST
    /\ other_student_with_same_matricule(req.student_id, req.matricule)
    /\ ~other_student_with_same_email(req.student_id, req.email)

\* C3 as stated: every update or delete request whose caller is not the target
\* student is answered 403 and changes no student.
C3_Original ==
    [][(/\ req'.op \in {"update_student", "delete_student"}
        /\ req'.caller # req'.student_id)
       => (resp' = HTTP_403_FORBIDDEN /\ students' = students)]_vars

\* C3 as amended: such a request is answered 403 when the target student
\* exists and 404 when it does not, and in both cases changes no student.
C3_OnlyOwnRecord ==
    [][(/\ req'.op \in {"update_student", "delete_student"}
        /\ req'.caller # req'.student_id)
       => /\ students' = students
          /\ resp' = IF req'.student_id \in DOMAIN students
                     THEN HTTP_403_FORBIDDEN ELSE HTTP_404_NOT_FOUND]_vars

\* a delete of an existing student by another caller was answered 403
C3_Witness ==
    /\ req.op = "delete_student"
    /\ req.caller # req.student_id
    /\ req.student_id \in DOMAIN students
    /\ resp = HTTP_403_FORBIDDEN

\* C4: a create-student request whose email or matricule is held by a student
\* is answered 400 and changes no student; otherwise it is answered 201 and
\* adds exactly one student, with that email and matricule.
C4_CreateStudent ==
    [][req'.op = "create_student" =>
         IF \E i \in DOMAIN students : \/ students[i].email = req'.email
                                       \/ students[i].matricule = req'.matricule
         THEN resp' = HTTP_400_BAD_REQUEST /\ students' = students
         ELSE /\ resp' = HTTP_201_CREATED
              /\ \E id \in StudentIds \ DOMAIN students :
                   /\ DOMAIN students' = DOMAIN students \cup {id}
                   /\ students'[id] = [email |-> req'.email,
                                       matricule |-> req'.matricule]
                   /\ \A i \in DOMAIN students : students'[i] = students[i]]_vars

\* a create-student request was answered 400 because of its matricule alone
C4_Witness ==
    /\ req.op = "create_student"
    /\ resp = HTTP_400_BAD_REQUEST
    /\ get_student_by_matricule(req.matricule) # {}
    /\ get_student_by_email(req.email) = {}

\* C5: once a create-subscription request for a pair has been answered 201 and
\* no unsubscribe of the pair has succeeded since, a create-subscription
\* request for the pair by that student is answered 400 and changes no
\* subscription.
C5_SecondSubscribe ==
    [][(/\ req'.op = "create_new_subscription"
        /\ req'.caller = req'.student_id
        /\ created[PairOf(req')] > 0)
       => (resp' = HTTP_400_BAD_REQUEST /\ subs' = subs)]_vars

\* a second create-subscription request by the subscribed student was answered 400
C5_Witness ==
    /\ req.op = "create_new_subscription"
    /\ req.caller = req.student_id
    /\ created[PairOf(req)] = 1
    /\ resp = HTTP_400_BAD_REQUEST

\* C6 as stated: every unsubscribe request for a pair with no subscription is
\* answered 404 and changes no subscription, whoever sends it.
C6_Original ==
    [][(req'.op = "unsubscribe" /\ subs[PairOf(req')] = 0)
       => (resp' = HTTP_404_NOT_FOUND /\ subs' = subs)]_vars

\* C6 as amended: an unsubscribe request sent by the student themself for a
\* pair with no subscription is answered 404 and changes no subscription; when
\* the subscription exists the request removes that one and no other.
C6_Unsubscribe ==
    [][(req'.op = "unsubscribe" /\ req'.caller = req'.student_id)
       => IF subs[PairOf(req')] = 0
          THEN resp' = HTTP_404_NOT_FOUND /\ subs' = subs
          ELSE subs' = [subs EXCEPT ![PairOf(req')] = 0]]_vars

\* a student's own unsubscribe removed their subscription and left another's
C6_Witness ==
    /\ req.op = "unsubscribe"
    /\ req.caller = req.student_id
    /\ resp \notin {HTTP_403_FORBIDDEN, HTTP_404_NOT_FOUND}
    /\ subs[PairOf(req)] = 0
    /\ \E p \in Pairs : subs[p] > 0

\* C7: a create-subscription or unsubscribe request whose student_id is not
\* the caller's is answered 403 and changes no subscription, whatever the
\* database holds; and any request that changes the subscriptions of student s
\* is a subscription request sent by s.
C7_OnlyOwnSubscriptions ==
    [][/\ (SubscriptionRequest(req') /\ req'.caller # req'.student_id)
          => (resp' = HTTP_403_FORBIDDEN /\ subs' = subs)
       /\ \A p \in Pairs :
            subs'[p] # subs[p] => (SubscriptionRequest(req') /\ req'.caller = p[2])]_vars

\* a create-subscription request by another caller was answered 403 although
\* the subscription it names exists
C7_Witness ==
    /\ req.op = "create_new_subscription"
    /\ req.caller # req.student_id
    /\ subs[PairOf(req)] > 0
    /\ resp = HTTP_403_FORBIDDEN

\* C8: a delete-student request by the existing target student, and an
\* unsubscribe request by the subscribed student, are answered 204.
C8_SuccessIs204 ==
    [][/\ (/\ req'.op = "delete_student"
           /\ req'.student_id \in DOMAIN students
           /\ req'.caller = req'.student_id)
          => resp' = HTTP_204_NO_CONTENT
       /\ (/\ req'.op = "unsubscribe"
           /\ req'.caller = req'.student_id
           /\ subs[PairOf(req')] > 0)
          => resp' = HTTP_204_NO_CONTENT]_vars

\* C9: every subscription row names a channel that exists and a student that
\* exists.
C9_ReferentialIntegrity ==
    \A p \in Pairs : subs[p] > 0 => (p[1] \in channels /\ p[2] \in DOMAIN students)

\* C10: with the handlers' lookups and writes interleaved, no pair ever has two
\* subscription rows, no pair has two create-subscription requests answered
\* 201 without an unsubscribe of it in between, and no two students share an
\* email or a matricule.
C10_UniqueUnderConcurrency ==
    /\ \A p \in Pairs : subs[p] <= 1 /\ created[p] <= 1
    /\ UniqueStudents

\* both workers are past the checks of create_student with the same email, and
\* one of them has inserted its student
C10_Witness ==
    /\ pc[1] = "idle"
    /\ pc[2] = "student_insert"
    /\ get_student_by_email(loc[2].email) # {}

====
